---- MODULE Spec2Model ----
(***************************************************************************)
(* A model of the scanline renderer (crate `scanline`): the orchestrator   *)
(* render_line / render_segment of src/lib.rs, its interval arithmetic     *)
(* (Offset, Intersect) and the drawables Bitmap, ZoomedBitmap and          *)
(* ColorClip for the pixel format RgbaNoPadding<8>.                        *)
(*                                                                         *)
(* A Range<isize> is a record [start, end]; an Option is [some |-> FALSE]  *)
(* or [some |-> TRUE, val |-> v]; a byte slice is a sequence of 0..255.    *)
(* A panic of the program ends the run in pc = "panic".                    *)
(***************************************************************************)
EXTENDS Integers, Sequences, FiniteSets, TLC

VARIABLES
    sprites,              \* the caller's sprites: sequence of [position, drawable]
    effects,              \* the caller's effects: sequence of [position, drawable]
    entry,                \* "none" | "render_line" | "render_segment": the entry point called
    all_lines_range,      \* argument: Option<Range<isize>>
    line_index,           \* argument: isize
    line_span,            \* argument: Range<isize>
    segment_span,         \* argument: Range<isize>
    buffer,               \* argument: &mut [u8]
    buffer0,              \* the buffer as it was passed in (history)
    segment_offset_bits,  \* local of render_segment
    pc,                   \* "setup" | "sprites" | "effects" | "done" | "panic"
    i,                    \* 1-based index of the next item of the running for loop
    panic,                \* the panic's message, "" when none
    visited,              \* history: the drawables whose lines() was called, in order
    calls,                \* history: the render calls issued, in order
    a, b,                 \* operands handed to intersect
    ab, ba,               \* intersect(a, b) and intersect(b, a), once computed
    ctor,                 \* the last constructor call and its outcome
    overflow_checks,      \* the build: TRUE when integer overflow panics, FALSE when it wraps
    blend,                \* one pixel blended by one drawable, and the outcome
    clipped               \* one byte sub-range computed for a pixel stride

vars == <<sprites, effects, entry, all_lines_range, line_index, line_span,
          segment_span, buffer, buffer0, segment_offset_bits, pc, i, panic,
          visited, calls, a, b, ab, ba, ctor, overflow_checks, blend, clipped>>

renderVars == <<sprites, effects, entry, all_lines_range, line_index, line_span,
                segment_span, buffer, buffer0, segment_offset_bits, pc, i, panic,
                visited, calls>>

-----------------------------------------------------------------------------
(* Bounds of the model. *)

\* Pixels in the widest line buffer handed to the renderer.
MaxPixels == 2

\* Drawables (sprites plus effects) in one call of the clipping scenes.
MaxDrawables == 1

\* Drawables (sprites plus effects) in one call of the layering scenes.
MaxLayers == 3

\* Endpoints of the intervals handed to intersect range over -MaxCoord..MaxCoord.
MaxCoord == 2

-----------------------------------------------------------------------------
(* Option and Range. *)

None == [some |-> FALSE]

Some(v) == [some |-> TRUE, val |-> v]

Range(s, e) == [start |-> s, end |-> e]

\* Range<isize>::contains
Contains(r, x) == r.start <= x /\ x < r.end

\* ExactSizeIterator::len of a Range: 0 when start >= end
RangeLen(r) == IF r.start < r.end THEN r.end - r.start ELSE 0

Max(x, y) == IF x >= y THEN x ELSE y

Min(x, y) == IF x <= y THEN x ELSE y

\* An offset that moves the start and leaves the end.
offset_start_only(r, scalar) == Range(r.start + scalar, r.end)

\* Offset::offset
offset(r, scalar) == Range(r.start + scalar, r.end + scalar)

\* The overlap test with Ordering::Equal let through: the intervals read as closed.
intersect_overlaps_inclusive(self, rhs) == self.start <= rhs.end /\ self.end >= rhs.start

\* self.start.cmp(&rhs.end) == Less and self.end.cmp(&rhs.start) == Greater
intersect_overlaps(self, rhs) == self.start < rhs.end /\ self.end > rhs.start

\* Intersect::intersect
intersect(self, rhs) ==
    IF intersect_overlaps(self, rhs)
    THEN Some(Range(Max(self.start, rhs.start), Min(self.end, rhs.end)))
    ELSE None

\* Rust's % on i64: the result takes the sign of the dividend.
RustRem(x, m) == IF x >= 0 THEN x % m ELSE -((-x) % m)

-----------------------------------------------------------------------------
(* Pixel formats. *)

BIT_DEPTH == 8

\* RgbaNoPadding::<8>::PIXEL_STRIDE_BITS
PIXEL_STRIDE_BITS == 4 * BIT_DEPTH

\* const PIXEL_BYTES in Bitmap::render
PIXEL_BYTES == PIXEL_STRIDE_BITS \div 8

U8_MAX == 255

-----------------------------------------------------------------------------
(* Pixel data.  A pixel is <<r, g, b, a>>; a slice holds its pixels' bytes. *)

RED == <<255, 0, 0, 255>>

BLUE == <<0, 0, 255, 255>>

\* A half-transparent premultiplied green.
GLASS == <<0, 64, 0, 128>>

\* n pixels of one colour
Solid(color, n) == [k \in 1..(4 * n) |-> color[((k - 1) % 4) + 1]]

\* n pixels, colour c0 in even columns and c1 in odd ones
Striped(c0, c1, n) ==
    [k \in 1..(4 * n) |->
        IF ((k - 1) \div 4) % 2 = 0 THEN c0[((k - 1) % 4) + 1] ELSE c1[((k - 1) % 4) + 1]]

\* The byte slices the caller owns; a Bitmap borrows one of them by name.
SliceNames == {"empty", "px1", "odd5", "red64", "blue64", "pair64", "ramp64", "ramp128"}

Red64 == Solid(RED, 64)

Blue64 == Solid(BLUE, 64)

Pair64 == Striped(GLASS, BLUE, 128)

\* n opaque pixels, each of its own colour: pixel q (from 0) is <<q, 255 - q, 0, 255>>
Ramp(n) ==
    [k \in 1..(4 * n) |->
        LET q == (k - 1) \div 4
        IN  CASE (k - 1) % 4 = 0 -> q
              [] (k - 1) % 4 = 1 -> 255 - q
              [] (k - 1) % 4 = 2 -> 0
              [] OTHER -> 255]

Ramp64 == Ramp(64)

Ramp128 == Ramp(128)

Slice(name) ==
    CASE name = "empty" -> << >>
      [] name = "px1" -> Solid(RED, 1)
      [] name = "odd5" -> <<255, 0, 0, 255, 7>>
      [] name = "red64" -> Red64
      [] name = "blue64" -> Blue64
      [] name = "pair64" -> Pair64
      [] name = "ramp64" -> Ramp64
      [] name = "ramp128" -> Ramp128

\* chunks_exact(PIXEL_BYTES): the q-th chunk (1-based) of a slice
Chunk(data, q) ==
    [k \in 1..PIXEL_BYTES |-> data[PIXEL_BYTES * (q - 1) + k]]

\* the number of whole chunks of a slice
Chunks(data) == Len(data) \div PIXEL_BYTES

-----------------------------------------------------------------------------
(* Blending (premultiplied alpha). *)

\* u8::saturating_add
saturating_add(x, y) == Min(U8_MAX, x + y)

\* The u16 term x * (u8::MAX - alpha) / u8::MAX
Scaled(x, alpha) == (x * (U8_MAX - alpha)) \div U8_MAX

\* A sprite blend that paints over what is there (back to front).
SpriteBlendOver(src, dest) ==
    [k \in 1..PIXEL_BYTES |-> saturating_add(src[k], Scaled(dest[k], src[PIXEL_BYTES]))]

\* Sprite::render's pixel: dest + src * (255 - dest alpha) / 255, saturating
SpriteBlend(src, dest) ==
    [k \in 1..PIXEL_BYTES |-> saturating_add(dest[k], Scaled(src[k], dest[PIXEL_BYTES]))]

\* Effect::render's pixel: src + dest * (255 - src alpha) / 255, saturating
EffectBlend(src, dest) ==
    [k \in 1..PIXEL_BYTES |-> saturating_add(src[k], Scaled(dest[k], src[PIXEL_BYTES]))]

Blend(role, src, dest) ==
    IF role = "sprite" THEN SpriteBlend(src, dest) ELSE EffectBlend(src, dest)

\* The zip of the source pixels with data.chunks_exact_mut(PIXEL_BYTES): the
\* first Min(Len(src), Chunks(data)) pixels of data are blended, the rest kept.
BlendSlice(role, src, data) ==
    LET n == Min(Len(src), Chunks(data))
    IN  [k \in 1..Len(data) |->
            LET q == ((k - 1) \div PIXEL_BYTES) + 1
            IN  IF q <= n
                THEN Blend(role, src[q], Chunk(data, q))[((k - 1) % PIXEL_BYTES) + 1]
                ELSE data[k]]

\* The outcome of a render call: the slice as written, or the panic.
Written(data) == [panic |-> "", data |-> data]

Panicked(msg) == [panic |-> msg, data |-> << >>]

-----------------------------------------------------------------------------
(* drawables/bitmap.rs *)

\* The divisor of the assert_eq! in Bitmap::new
BitmapNewDivisor(width) == width * PIXEL_STRIDE_BITS * 8

\* Bitmap::new: Some(bitmap), or None when it panics (the assert_eq! fails, or the
\* remainder's divisor is zero).
BitmapNew(width, name) ==
    IF BitmapNewDivisor(width) # 0 /\ Len(Slice(name)) % BitmapNewDivisor(width) = 0
    THEN Some([type |-> "Bitmap", width |-> width, data |-> name])
    ELSE None

\* ZoomedBitmap::new: the same assert_eq! as Bitmap::new
ZoomedBitmapNew(width, name, horizontal_zoom_factor, vertical_zoom_factor) ==
    IF BitmapNewDivisor(width) # 0 /\ Len(Slice(name)) % BitmapNewDivisor(width) = 0
    THEN Some([type |-> "ZoomedBitmap", width |-> width, data |-> name,
               horizontal_zoom_factor |-> horizontal_zoom_factor,
               vertical_zoom_factor |-> vertical_zoom_factor])
    ELSE None

\* The end of lines() one line too far.
BitmapHeightPlusOne(bm) == ((Len(Slice(bm.data)) \div 4) \div bm.width) + 1

\* self.data.len() / 4 / self.width
BitmapHeight(bm) == (Len(Slice(bm.data)) \div 4) \div bm.width

\* <Bitmap as Sprite>::lines and <Bitmap as Effect>::lines
BitmapLines(bm) == Range(0, BitmapHeight(bm))

\* <Bitmap as Sprite>::line_segment and <Bitmap as Effect>::line_segment
BitmapLineSegment(bm) == Range(0, bm.width)

\* The assertions of Bitmap::render, in order; "" when all hold.
BitmapRenderPanic(bm, line, segment, offset_bits, data) ==
    CASE ~(line >= 0) -> "assertion failed: line >= 0"
      [] ~(line < (Len(Slice(bm.data)) \div PIXEL_BYTES) \div bm.width) ->
            "assertion failed: line < self.data.len() / PIXEL_BYTES / self.width"
      [] ~(offset_bits % 8 = 0) -> "assertion failed: offset_bits % 8 == 0"
      [] ~(segment.start >= 0) -> "assertion failed: segment.start >= 0"
      [] ~(segment.start <= segment.end) -> "assertion failed: segment.start <= segment.end"
      [] ~(segment.end <= bm.width) -> "assertion failed: segment.end <= self.width"
      [] ~(RangeLen(segment) * PIXEL_BYTES = Len(data)) ->
            "assertion failed: segment.len() * PIXEL_BYTES == data.len()"
      [] OTHER -> ""

\* chunks_exact(PIXEL_BYTES).skip(line * width).skip(segment.start).take(segment.len())
BitmapSource(bm, line, segment) ==
    LET skip == line * bm.width + segment.start
        n == Min(Max(0, Chunks(Slice(bm.data)) - skip), RangeLen(segment))
    IN  [q \in 1..n |-> Chunk(Slice(bm.data), skip + q)]

\* <Bitmap as Sprite>::render (role "sprite") and <Bitmap as Effect>::render
BitmapRender(bm, role, line, segment, offset_bits, data) ==
    LET msg == BitmapRenderPanic(bm, line, segment, offset_bits, data)
    IN  IF msg # ""
        THEN Panicked(msg)
        ELSE Written(BlendSlice(role, BitmapSource(bm, line, segment), data))

-----------------------------------------------------------------------------
(* drawables/zoomed_bitmap.rs.  The Sprite and the Effect implementation   *)
(* are told apart by `role`.                                               *)

\* <ZoomedBitmap as Sprite>::lines multiplies the height by the vertical zoom
\* factor; <ZoomedBitmap as Effect>::lines does not.
ZoomedBitmapLines(zb, role) ==
    IF role = "sprite"
    THEN Range(0, BitmapHeight(zb) * zb.vertical_zoom_factor)
    ELSE Range(0, BitmapHeight(zb))

\* <ZoomedBitmap as Sprite>::line_segment multiplies the width by the horizontal
\* zoom factor; <ZoomedBitmap as Effect>::line_segment does not.
ZoomedBitmapLineSegment(zb, role) ==
    IF role = "sprite"
    THEN Range(0, zb.width * zb.horizontal_zoom_factor)
    ELSE Range(0, zb.width)

\* The assertions of ZoomedBitmap::render (the same in both roles), in order;
\* "" when all hold.
ZoomedBitmapRenderPanic(zb, line, segment, offset_bits, data) ==
    CASE ~(line >= 0) -> "assertion failed: line >= 0"
      [] ~(line < ((Len(Slice(zb.data)) \div PIXEL_BYTES) \div zb.width)
                        * zb.vertical_zoom_factor) ->
            "assertion failed: line < self.data.len() / PIXEL_BYTES / self.width * self.vertical_zoom_factor"
      [] ~(offset_bits % 8 = 0) -> "assertion failed: offset_bits % 8 == 0"
      [] ~(segment.start >= 0) -> "assertion failed: segment.start >= 0"
      [] ~(segment.start <= segment.end) -> "assertion failed: segment.start <= segment.end"
      [] ~(segment.end <= zb.width * zb.horizontal_zoom_factor) ->
            "assertion failed: segment.end <= self.width * self.horizontal_zoom_factor"
      [] ~(RangeLen(segment) * PIXEL_BYTES = Len(data)) ->
            "assertion failed: segment.len() * PIXEL_BYTES == data.len()"
      [] OTHER -> ""

\* repeat_each(items, n): every item n times in a row
repeat_each(items, n) ==
    [k \in 1..(Len(items) * n) |-> items[((k - 1) \div n) + 1]]

\* chunks_exact(width * PIXEL_BYTES), repeat_each(lines, vertical_zoom_factor),
\* skip(line), flat_map(|line| line.chunks_exact(PIXEL_BYTES)),
\* repeat_each(pixels, horizontal_zoom_factor), skip(segment.start),
\* take(segment.len())
ZoomedBitmapSource(zb, line, segment) ==
    LET row_bytes == zb.width * PIXEL_BYTES
        lines == [r \in 1..(Len(Slice(zb.data)) \div row_bytes) |->
                    SubSeq(Slice(zb.data), row_bytes * (r - 1) + 1, row_bytes * r)]
        zoomed == repeat_each(lines, zb.vertical_zoom_factor)
        rest == SubSeq(zoomed, line + 1, Len(zoomed))
        pixels == [t \in 1..(Len(rest) * zb.width) |->
                    Chunk(rest[((t - 1) \div zb.width) + 1], ((t - 1) % zb.width) + 1)]
        wide == repeat_each(pixels, zb.horizontal_zoom_factor)
        n == Min(Max(0, Len(wide) - segment.start), RangeLen(segment))
    IN  [q \in 1..n |-> wide[segment.start + q]]

\* The u8 `+` and `+=` of ZoomedBitmap::render where the build does not check
\* overflow: the sum modulo 2^8
wrapping_add(x, y) == (x + y) % (U8_MAX + 1)

\* <ZoomedBitmap as Sprite>::render's pixel: *dest += src * (255 - dest alpha) / 255
ZoomedSpriteBlend(src, dest) ==
    [k \in 1..PIXEL_BYTES |-> wrapping_add(dest[k], Scaled(src[k], dest[PIXEL_BYTES]))]

\* <ZoomedBitmap as Effect>::render's pixel: *dest = src + dest * (255 - src alpha) / 255
ZoomedEffectBlend(src, dest) ==
    [k \in 1..PIXEL_BYTES |-> wrapping_add(src[k], Scaled(dest[k], src[PIXEL_BYTES]))]

ZoomedBlend(role, src, dest) ==
    IF role = "sprite" THEN ZoomedSpriteBlend(src, dest) ELSE ZoomedEffectBlend(src, dest)

\* Some channel's sum exceeds u8::MAX: where the build checks overflow, the
\* addition panics.
ZoomedBlendOverflows(role, src, dest) ==
    \E k \in 1..PIXEL_BYTES :
        IF role = "sprite"
        THEN dest[k] + Scaled(src[k], dest[PIXEL_BYTES]) > U8_MAX
        ELSE src[k] + Scaled(dest[k], src[PIXEL_BYTES]) > U8_MAX

\* One pixel through ZoomedBitmap::render's loop body in a build that checks
\* overflow (`checks`) or does not.
ZoomedBlendPixel(role, src, dest, checks) ==
    IF checks /\ ZoomedBlendOverflows(role, src, dest)
    THEN Panicked("attempt to add with overflow")
    ELSE Written(ZoomedBlend(role, src, dest))

\* <ZoomedBitmap as Sprite>::render (role "sprite") and <ZoomedBitmap as
\* Effect>::render: the zip of the source pixels with
\* data.chunks_exact_mut(PIXEL_BYTES).
ZoomedBitmapRender(zb, role, line, segment, offset_bits, data) ==
    LET msg == ZoomedBitmapRenderPanic(zb, line, segment, offset_bits, data)
        src == ZoomedBitmapSource(zb, line, segment)
        n == Min(Len(src), Chunks(data))
        out == [q \in 1..n |-> ZoomedBlendPixel(role, src[q], Chunk(data, q), overflow_checks)]
    IN  IF msg # ""
        THEN Panicked(msg)
        ELSE IF \E q \in 1..n : out[q].panic # ""
        THEN Panicked("attempt to add with overflow")
        ELSE Written([k \in 1..Len(data) |->
                        LET q == ((k - 1) \div PIXEL_BYTES) + 1
                        IN  IF q <= n
                            THEN out[q].data[((k - 1) % PIXEL_BYTES) + 1]
                            ELSE data[k]])

-----------------------------------------------------------------------------
(* drawables/color_clip.rs.  The closures `lines` and `segments` are the      *)
(* caller's; the model names the ones its callers pass.                       *)

LineClosures == {"unit", "hint"}

SegmentClosures == {"span", "unit", "point"}

\* ColorClip::new
ColorClipNew(lines, segments, color) ==
    Some([type |-> "ColorClip", lines |-> lines, segments |-> segments, color |-> color])

\* (self.lines)(all_lines_range): "unit" is |_| 0..1, "hint" is
\* |all| all.unwrap_or(0..1)
ColorClipLines(cc, all) ==
    IF cc.lines = "hint" /\ all.some THEN all.val ELSE Range(0, 1)

\* (self.segments)(all_lines_range, line, line_span): "span" is |_, _, span| span,
\* "unit" is |_, _, _| 0..1, "point" is the empty |_, _, _| 1..1
ColorClipLineSegment(cc, all, line, span) ==
    CASE cc.segments = "span" -> span
      [] cc.segments = "unit" -> Range(0, 1)
      [] cc.segments = "point" -> Range(1, 1)

\* <ColorClip as Sprite>::render and <ColorClip as Effect>::render
ColorClipRender(cc, role, offset_bits, data) ==
    IF offset_bits # 0
    THEN Panicked("assertion failed: offset_bits == 0")
    ELSE Written(BlendSlice(role, [q \in 1..Chunks(data) |-> cc.color], data))

-----------------------------------------------------------------------------
(* The Sprite and Effect traits, dispatched on the drawable's type. *)

Lines(d, all) ==
    IF d.type = "Bitmap" THEN BitmapLines(d) ELSE ColorClipLines(d, all)

LineSegment(d, all, line, span) ==
    IF d.type = "Bitmap" THEN BitmapLineSegment(d) ELSE ColorClipLineSegment(d, all, line, span)

\* lines() of the Sprite implementation (role "sprite") or of the Effect one
LinesOf(role, d, all) ==
    IF d.type = "ZoomedBitmap" THEN ZoomedBitmapLines(d, role) ELSE Lines(d, all)

\* line_segment() of the Sprite implementation or of the Effect one
LineSegmentOf(role, d, all, line, span) ==
    IF d.type = "ZoomedBitmap"
    THEN ZoomedBitmapLineSegment(d, role)
    ELSE LineSegment(d, all, line, span)

Render(d, role, all, line, span, segment, offset_bits, data) ==
    CASE d.type = "Bitmap" -> BitmapRender(d, role, line, segment, offset_bits, data)
      [] d.type = "ZoomedBitmap" ->
            ZoomedBitmapRender(d, role, line, segment, offset_bits, data)
      [] OTHER -> ColorClipRender(d, role, offset_bits, data)

-----------------------------------------------------------------------------
(* lib.rs: render_line and render_segment. *)

Position(x, y) == [x |-> x, y |-> y]

\* let buffer_clip = (segment_offset_bits + start * STRIDE + 7) / 8
\*                 ..(segment_offset_bits + end * STRIDE + 7) / 8
buffer_clip(offset_bits, pixels, stride) ==
    Range((offset_bits + pixels.start * stride + 7) \div 8,
          (offset_bits + pixels.end * stride + 7) \div 8)

\* segment_span.start * PIXEL_STRIDE_BITS % 8, in i64
SegmentOffsetBits(span, stride) == RustRem(span.start * stride, 8)

\* The bytes the assert! of render_segment asks of the buffer.
BufferNeed(span, stride, offset_bits) ==
    (RangeLen(span) * stride + offset_bits + 7) \div 8

\* The outcome of one pass of a for loop's body.
Pass(msg, buf, call) == [panic |-> msg, buffer |-> buf, call |-> call]

\* One pass of the body of `for (position, sprite) in sprites` (role "sprite") or
\* of `for (position, effect) in effects` (role "effect") for the item at `index`.
Body(role, index, item, buf) ==
    LET position == item.position
        d == item.drawable
        all == IF all_lines_range.some
               THEN Some(offset(all_lines_range.val, -position.y))
               ELSE None
        line == line_index - position.y
    IN  IF ~Contains(LinesOf(role, d, all), line)
        THEN Pass("", buf, None)
        ELSE
        LET span == offset(line_span, -position.x)
            seg_span == offset(segment_span, -position.x)
            hit == intersect(seg_span, LineSegmentOf(role, d, all, line, span))
        IN  IF ~hit.some
            THEN Pass("", buf, None)
            ELSE
            LET segment == hit.val
                pixels == offset(segment, position.x)
            IN  IF pixels.start < 0 \/ pixels.end < 0
                THEN Pass("buffer clip pixels", buf, None)
                ELSE
                LET clip == buffer_clip(segment_offset_bits, pixels, PIXEL_STRIDE_BITS)
                    call == [role |-> role, index |-> index, line |-> line,
                             segment |-> segment, offset_bits |-> segment_offset_bits,
                             pixels |-> pixels, clip |-> clip]
                IN  IF clip.start > clip.end
                    THEN Pass("slice index starts after its end", buf, None)
                    ELSE IF clip.end > Len(buf)
                    THEN Pass("range end index out of range for slice", buf, None)
                    ELSE
                    LET out == Render(d, role, all, line, span, segment,
                                      segment_offset_bits,
                                      SubSeq(buf, clip.start + 1, clip.end))
                    IN  IF out.panic # ""
                        THEN Pass(out.panic, buf, Some(call))
                        ELSE Pass("",
                                  SubSeq(buf, 1, clip.start) \o out.data
                                      \o SubSeq(buf, clip.end + 1, Len(buf)),
                                  Some(call))

\* The sprites' loop left after its first pass.
SpritesExhaustedEarly == i > Len(sprites) \/ i > 1

\* `for (position, sprite) in sprites`: the iterator has no next item
SpritesExhausted == i > Len(sprites)

\* `for (position, effect) in effects`: the iterator has no next item
EffectsExhausted == i > Len(effects)

-----------------------------------------------------------------------------
(* The callers: what they construct and what they pass. *)

\* A constructor call: Bitmap::new(width, data) or ColorClip::new(lines, segments, color)
NewBitmap(width, name) == [type |-> "Bitmap", width |-> width, data |-> name]

NewColorClip(lines, segments, color) ==
    [type |-> "ColorClip", lines |-> lines, segments |-> segments, color |-> color]

NewZoomedBitmap(width, name, hz, vz) ==
    [type |-> "ZoomedBitmap", width |-> width, data |-> name,
     horizontal_zoom_factor |-> hz, vertical_zoom_factor |-> vz]

Construct(c) ==
    CASE c.type = "Bitmap" -> BitmapNew(c.width, c.data)
      [] c.type = "ZoomedBitmap" ->
            ZoomedBitmapNew(c.width, c.data, c.horizontal_zoom_factor, c.vertical_zoom_factor)
      [] c.type = "ColorClip" -> ColorClipNew(c.lines, c.segments, c.color)

Coordinates == {-1, 0, 1}

Positions == {Position(x, y) : x \in Coordinates, y \in Coordinates}

\* The drawables of the clipping scenes; the constructor call of the last one panics.
Constructions ==
    {NewBitmap(1, "red64"), NewBitmap(2, "pair64"),
     NewColorClip("hint", "span", RED), NewColorClip("unit", "point", BLUE),
     NewColorClip("unit", "unit", GLASS), NewBitmap(1, "px1")}

Placements == {[position |-> p, new |-> c] : p \in Positions, c \in Constructions}

\* The drawables of the layering scenes, all placed at the origin.
LayerPlacements ==
    {[position |-> Position(0, 0), new |-> c] :
        c \in {NewBitmap(1, "red64"), NewBitmap(1, "blue64"),
               NewColorClip("unit", "span", BLUE), NewColorClip("unit", "span", GLASS)}}

\* The lines of a Bitmap that Bitmap::new accepts with one line's width of data
\* per PIXEL_STRIDE_BITS * 8 bytes.
Rows == (PIXEL_STRIDE_BITS * 8) \div PIXEL_BYTES

LineIndexes == {0, Rows}

AllLinesRanges == {None, Some(Range(0, Rows + 1))}

Zeroed(n) == [k \in 1..n |-> 0]

\* The line buffers: whole pixels, and whole pixels with a byte to spare.
LineBuffers == {Zeroed(PIXEL_BYTES * n + r) : n \in 0..MaxPixels, r \in {0, 1}}

\* The segments asked of render_segment: cut from the line at column 0 or 1.
SegmentSpans == {Range(s, s + n) : s \in 0..1, n \in 0..MaxPixels}

\* The line the segments are cut from.
FullLine == Range(0, MaxPixels + 1)

\* The buffers passed with a segment: exactly the segment's pixels, or the line's.
SegmentBuffers(span) ==
    {Zeroed(PIXEL_BYTES * RangeLen(span)), Zeroed(PIXEL_BYTES * RangeLen(FullLine))}

-----------------------------------------------------------------------------
(* The state machine. *)

NoCtor == [called |-> FALSE, ok |-> FALSE, new |-> NewColorClip("unit", "unit", RED)]

\* An intersection not computed yet.
Pending == [pending |-> TRUE]

\* No pixel handed to a blend, no byte sub-range asked for.
Idle == [idle |-> TRUE]

\* The build checks integer overflow (the dev profile); nothing else is under way.
InitBuild ==
    /\ overflow_checks = TRUE
    /\ blend = Idle
    /\ clipped = Idle

InitRender ==
    /\ sprites = << >>
    /\ effects = << >>
    /\ entry = "none"
    /\ all_lines_range = None
    /\ line_index = 0
    /\ line_span = Range(0, 0)
    /\ segment_span = Range(0, 0)
    /\ buffer = << >>
    /\ buffer0 = << >>
    /\ segment_offset_bits = 0
    /\ pc = "setup"
    /\ i = 1
    /\ panic = ""
    /\ visited = << >>
    /\ calls = << >>

InitIdle ==
    /\ a = Range(0, 0)
    /\ b = Range(0, 0)
    /\ ab = Pending
    /\ ba = Pending
    /\ ctor = NoCtor
    /\ InitBuild

Init == InitRender /\ InitIdle

\* The caller constructs a drawable and pushes it, with its position, on `sprites`.
AddSprite(from, max) ==
    /\ pc = "setup"
    /\ Len(sprites) + Len(effects) < max
    /\ effects = << >>
    /\ \E p \in from :
        LET made == Construct(p.new)
        IN  IF made.some
            THEN /\ sprites' = Append(sprites, [position |-> p.position, drawable |-> made.val])
                 /\ UNCHANGED <<pc, panic>>
            ELSE /\ pc' = "panic"
                 /\ panic' = "Bitmap::new: assertion failed"
                 /\ UNCHANGED sprites
    /\ UNCHANGED <<effects, entry, all_lines_range, line_index, line_span, segment_span,
                   buffer, buffer0, segment_offset_bits, i, visited, calls,
                   a, b, ab, ba, ctor, overflow_checks, blend, clipped>>

\* The caller constructs a drawable and pushes it, with its position, on `effects`.
AddEffect(from, max) ==
    /\ pc = "setup"
    /\ Len(sprites) + Len(effects) < max
    /\ \E p \in from :
        LET made == Construct(p.new)
        IN  IF made.some
            THEN /\ effects' = Append(effects, [position |-> p.position, drawable |-> made.val])
                 /\ UNCHANGED <<pc, panic>>
            ELSE /\ pc' = "panic"
                 /\ panic' = "Bitmap::new: assertion failed"
                 /\ UNCHANGED effects
    /\ UNCHANGED <<sprites, entry, all_lines_range, line_index, line_span, segment_span,
                   buffer, buffer0, segment_offset_bits, i, visited, calls,
                   a, b, ab, ba, ctor, overflow_checks, blend, clipped>>

\* render_segment up to its first for loop, called with the given arguments.
EnterSegment(name, all, index, span, seg_span, buf) ==
    LET bits == SegmentOffsetBits(seg_span, PIXEL_STRIDE_BITS)
    IN  /\ entry' = name
        /\ all_lines_range' = all
        /\ line_index' = index
        /\ line_span' = span
        /\ segment_span' = seg_span
        /\ buffer' = buf
        /\ buffer0' = buf
        /\ i' = 1
        /\ IF bits < 0
           THEN /\ pc' = "panic"
                /\ panic' = "extreme pixel stride caused segment offset overflow"
                /\ segment_offset_bits' = 0
           ELSE /\ segment_offset_bits' = bits
                /\ IF Len(buf) >= BufferNeed(seg_span, PIXEL_STRIDE_BITS, bits)
                   THEN pc' = "sprites" /\ panic' = ""
                   ELSE pc' = "panic" /\ panic' = "assertion failed: buffer.len() >= ..."
        /\ UNCHANGED <<sprites, effects, visited, calls, a, b, ab, ba, ctor,
                       overflow_checks, blend, clipped>>

\* render_line: the line's span is taken from the buffer's length.
RenderLine ==
    /\ pc = "setup"
    /\ PIXEL_STRIDE_BITS % 8 = 0
    /\ \E all \in AllLinesRanges, index \in LineIndexes, buf \in LineBuffers :
        LET span == Range(0, Len(buf) \div (PIXEL_STRIDE_BITS \div 8))
        IN  EnterSegment("render_line", all, index, span, span, buf)

\* render_segment, called directly.
RenderSegment ==
    /\ pc = "setup"
    /\ \E all \in AllLinesRanges, index \in LineIndexes, seg_span \in SegmentSpans :
        \E buf \in SegmentBuffers(seg_span) :
            EnterSegment("render_segment", all, index, FullLine, seg_span, buf)

\* What a pass of a loop body leaves behind.
Apply(role, out) ==
    /\ buffer' = out.buffer
    /\ visited' = Append(visited, [role |-> role, index |-> i])
    /\ calls' = IF out.call.some THEN Append(calls, out.call.val) ELSE calls
    /\ IF out.panic # ""
       THEN pc' = "panic" /\ panic' = out.panic /\ UNCHANGED i
       ELSE i' = i + 1 /\ UNCHANGED <<pc, panic>>
    /\ UNCHANGED <<sprites, effects, entry, all_lines_range, line_index, line_span,
                   segment_span, buffer0, segment_offset_bits, a, b, ab, ba, ctor,
                   overflow_checks, blend, clipped>>

\* One pass of `for (position, sprite) in sprites`.
StepSprite ==
    /\ pc = "sprites"
    /\ ~SpritesExhausted
    /\ Apply("sprite", Body("sprite", i, sprites[i], buffer))

\* The sprites are done: on to `for (position, effect) in effects`.
SpritesEnd ==
    /\ pc = "sprites"
    /\ SpritesExhausted
    /\ pc' = "effects"
    /\ i' = 1
    /\ UNCHANGED <<sprites, effects, entry, all_lines_range, line_index, line_span,
                   segment_span, buffer, buffer0, segment_offset_bits, panic,
                   visited, calls, a, b, ab, ba, ctor, overflow_checks, blend, clipped>>

\* One pass of `for (position, effect) in effects`.
StepEffect ==
    /\ pc = "effects"
    /\ ~EffectsExhausted
    /\ Apply("effect", Body("effect", i, effects[i], buffer))

\* The effects are done: render_segment returns.
EffectsEnd ==
    /\ pc = "effects"
    /\ EffectsExhausted
    /\ pc' = "done"
    /\ UNCHANGED <<sprites, effects, entry, all_lines_range, line_index, line_span,
                   segment_span, buffer, buffer0, segment_offset_bits, panic, i,
                   visited, calls, a, b, ab, ba, ctor, overflow_checks, blend, clipped>>

Next ==
    \/ AddSprite(Placements, MaxDrawables)
    \/ AddEffect(Placements, MaxDrawables)
    \/ RenderLine
    \/ RenderSegment
    \/ StepSprite
    \/ SpritesEnd
    \/ StepEffect
    \/ EffectsEnd

\* The clipping scenes: few drawables, placed all around the line.
Spec == Init /\ [][Next]_vars

NextLayers ==
    \/ AddSprite(LayerPlacements, MaxLayers)
    \/ AddEffect(LayerPlacements, MaxLayers)
    \/ RenderLine
    \/ RenderSegment
    \/ StepSprite
    \/ SpritesEnd
    \/ StepEffect
    \/ EffectsEnd

\* The layering scenes: several drawables stacked at the origin.
SpecLayers == Init /\ [][NextLayers]_vars

-----------------------------------------------------------------------------
(* Intersect::intersect on its own, over every pair of valid intervals.   *)

\* The valid intervals (start <= end) with endpoints in -MaxCoord..MaxCoord.
Intervals ==
    {r \in {Range(s, e) : s \in -MaxCoord..MaxCoord, e \in -MaxCoord..MaxCoord} :
        r.start <= r.end}

InitIntersect ==
    /\ InitRender
    /\ a \in Intervals
    /\ b \in Intervals
    /\ ab = Pending
    /\ ba = Pending
    /\ ctor = NoCtor
    /\ InitBuild

\* a.intersect(b)
IntersectAB ==
    /\ ab = Pending
    /\ ab' = intersect(a, b)
    /\ UNCHANGED <<renderVars, a, b, ba, ctor, overflow_checks, blend, clipped>>

\* b.intersect(a)
IntersectBA ==
    /\ ba = Pending
    /\ ba' = intersect(b, a)
    /\ UNCHANGED <<renderVars, a, b, ab, ctor, overflow_checks, blend, clipped>>

NextIntersect == IntersectAB \/ IntersectBA

SpecIntersect == InitIntersect /\ [][NextIntersect]_vars

-----------------------------------------------------------------------------
(* The constructors on their own: Bitmap::new and ZoomedBitmap::new. *)

\* Widths passed to the constructors range over 0..MaxWidth.
MaxWidth == 2

\* Zoom factors passed to ZoomedBitmap::new range over 1..MaxZoom.
MaxZoom == 2

ConstructorCalls ==
    {NewBitmap(w, n) : w \in 0..MaxWidth, n \in SliceNames} \cup
    {NewZoomedBitmap(w, n, hz, vz) :
        w \in 0..MaxWidth, n \in SliceNames, hz \in 1..MaxZoom, vz \in 1..MaxZoom}

InitNew ==
    /\ InitRender
    /\ a = Range(0, 0)
    /\ b = Range(0, 0)
    /\ ab = Pending
    /\ ba = Pending
    /\ \E c \in ConstructorCalls : ctor = [called |-> FALSE, ok |-> FALSE, new |-> c]
    /\ InitBuild

\* The constructor runs: it returns the drawable or panics.
New ==
    /\ ~ctor.called
    /\ ctor' = [called |-> TRUE, ok |-> Construct(ctor.new).some, new |-> ctor.new]
    /\ UNCHANGED <<renderVars, a, b, ab, ba, overflow_checks, blend, clipped>>

NextNew == New

SpecNew == InitNew /\ [][NextNew]_vars

-----------------------------------------------------------------------------
(* The zoom scenes: render_line over zoomed bitmaps, as sprites and as     *)
(* effects, in a build that checks overflow and in one that does not.      *)

\* Drawables (sprites plus effects) in one call of the zoom scenes.
MaxZoomed == 1

\* Pixels in the widest line buffer of the zoom scenes.
MaxZoomPixels == 4

\* One source pixel per line zoomed by 3 x 2, two per line zoomed by 2 x 2;
\* at the origin and shifted up and to the left.
ZoomPlacements ==
    {[position |-> p, new |-> c] :
        p \in {Position(0, 0), Position(-1, -1)},
        c \in {NewZoomedBitmap(1, "ramp64", 3, 2), NewZoomedBitmap(2, "ramp128", 2, 2)}}

\* The first lines, the lines around the source's height and the lines around
\* twice that height.
ZoomLineIndexes == {0, 1, 2, Rows - 1, Rows, (2 * Rows) - 1, 2 * Rows}

ZoomLineBuffers == {Zeroed(PIXEL_BYTES * n) : n \in 1..MaxZoomPixels}

InitZoom ==
    /\ InitRender
    /\ a = Range(0, 0)
    /\ b = Range(0, 0)
    /\ ab = Pending
    /\ ba = Pending
    /\ ctor = NoCtor
    /\ overflow_checks \in BOOLEAN
    /\ blend = Idle
    /\ clipped = Idle

\* render_line, called on a line of the zoom scenes.
RenderZoomedLine ==
    /\ pc = "setup"
    /\ PIXEL_STRIDE_BITS % 8 = 0
    /\ \E index \in ZoomLineIndexes, buf \in ZoomLineBuffers :
        LET span == Range(0, Len(buf) \div (PIXEL_STRIDE_BITS \div 8))
        IN  EnterSegment("render_line", None, index, span, span, buf)

NextZoom ==
    \/ AddSprite(ZoomPlacements, MaxZoomed)
    \/ AddEffect(ZoomPlacements, MaxZoomed)
    \/ RenderZoomedLine
    \/ StepSprite
    \/ SpritesEnd
    \/ StepEffect
    \/ EffectsEnd

SpecZoom == InitZoom /\ [][NextZoom]_vars

-----------------------------------------------------------------------------
(* The blends on their own: one source pixel over one destination pixel,   *)
(* through the loop body of each drawable's render, in either role and in  *)
(* either build.                                                           *)

Adapters == {"Bitmap", "ZoomedBitmap", "ColorClip"}

Roles == {"sprite", "effect"}

\* The channel and alpha values the pixels are made of: both ends of u8, their
\* neighbours, the middle and two values in between.
ChannelValues == {0, 1, 64, 127, 128, 200, 254, 255}

\* Pixels <<channel, 0, 0, alpha>>, premultiplied or not.
BlendPixels == {<<c, 0, 0, alpha>> : c \in ChannelValues, alpha \in ChannelValues}

\* The u16 term of each channel, before `.try_conv::<u8>()`.
BlendTerms(role, src, dest) ==
    [k \in 1..PIXEL_BYTES |->
        IF role = "sprite"
        THEN Scaled(src[k], dest[PIXEL_BYTES])
        ELSE Scaled(dest[k], src[PIXEL_BYTES])]

\* `.try_conv::<u8>()` of a u16: Ok exactly for the values up to u8::MAX
TryConvU8Fails(term) == term > U8_MAX

\* The loop body of a drawable's render for one pixel: the pixel written, or
\* the panic.
AdapterBlend(adapter, role, src, dest, checks) ==
    IF \E k \in 1..PIXEL_BYTES : TryConvU8Fails(BlendTerms(role, src, dest)[k])
    THEN Panicked("infallible")
    ELSE CASE adapter = "Bitmap" -> Written(BlendSlice(role, <<src>>, dest))
           [] adapter = "ColorClip" ->
                ColorClipRender(ColorClipNew("unit", "unit", src).val, role, 0, dest)
           [] adapter = "ZoomedBitmap" -> ZoomedBlendPixel(role, src, dest, checks)

InitBlend ==
    /\ InitRender
    /\ a = Range(0, 0)
    /\ b = Range(0, 0)
    /\ ab = Pending
    /\ ba = Pending
    /\ ctor = NoCtor
    /\ overflow_checks \in BOOLEAN
    /\ \E adapter \in Adapters, role \in Roles, src \in BlendPixels, dest \in BlendPixels :
            blend = [adapter |-> adapter, role |-> role, src |-> src, dest |-> dest,
                     done |-> FALSE, out |-> Written(dest)]
    /\ clipped = Idle

\* The loop body runs for the pixel.
BlendPixel ==
    /\ ~blend.done
    /\ blend' = [blend EXCEPT
                    !.done = TRUE,
                    !.out = AdapterBlend(blend.adapter, blend.role, blend.src, blend.dest,
                                         overflow_checks)]
    /\ UNCHANGED <<renderVars, a, b, ab, ba, ctor, overflow_checks, clipped>>

NextBlend == BlendPixel

SpecBlend == InitBlend /\ [][NextBlend]_vars

-----------------------------------------------------------------------------
(* The byte arithmetic of render_segment on its own, for the pixel formats *)
(* of pixel_formats.rs at several bit depths.                              *)

\* Segments start at columns 0..MaxSegmentStart.
MaxSegmentStart == 2

\* Segments hold up to MaxSegmentPixels pixels.
MaxSegmentPixels == 3

BitDepths == {1, 2, 4}

\* RgbaNoPadding::<BIT_DEPTH>::PIXEL_STRIDE_BITS and
\* RgbNoPadding::<BIT_DEPTH>::PIXEL_STRIDE_BITS
Strides == {4 * depth : depth \in BitDepths} \cup {3 * depth : depth \in BitDepths}

\* The segment passed to render_segment and the caller-space columns
\* [c0, c1) inside it that a drawable was clipped to.
ClipInputs ==
    {[stride |-> stride, segment_span |-> Range(s, s + n), pixels |-> Range(c0, c1)] :
        stride \in Strides, s \in 0..MaxSegmentStart, n \in 0..MaxSegmentPixels,
        c0 \in 0..(MaxSegmentStart + MaxSegmentPixels),
        c1 \in 0..(MaxSegmentStart + MaxSegmentPixels)}

InitClip ==
    /\ InitRender
    /\ a = Range(0, 0)
    /\ b = Range(0, 0)
    /\ ab = Pending
    /\ ba = Pending
    /\ ctor = NoCtor
    /\ overflow_checks = TRUE
    /\ blend = Idle
    /\ \E in \in ClipInputs :
        /\ in.segment_span.start <= in.pixels.start
        /\ in.pixels.start <= in.pixels.end
        /\ in.pixels.end <= in.segment_span.end
        /\ clipped = [stride |-> in.stride, segment_span |-> in.segment_span,
                      pixels |-> in.pixels, done |-> FALSE, panic |-> "",
                      segment_offset_bits |-> 0, buffer_clip |-> Range(0, 0)]

\* render_segment computes segment_offset_bits and, for the clipped columns,
\* buffer_clip.
ClipBytes ==
    /\ ~clipped.done
    /\ LET bits == SegmentOffsetBits(clipped.segment_span, clipped.stride)
       IN  clipped' =
             IF bits < 0
             THEN [clipped EXCEPT
                     !.done = TRUE,
                     !.panic = "extreme pixel stride caused segment offset overflow"]
             ELSE [clipped EXCEPT
                     !.done = TRUE,
                     !.segment_offset_bits = bits,
                     !.buffer_clip = buffer_clip(bits, clipped.pixels, clipped.stride)]
    /\ UNCHANGED <<renderVars, a, b, ab, ba, ctor, overflow_checks, blend>>

NextClip == ClipBytes

SpecClip == InitClip /\ [][NextClip]_vars

-----------------------------------------------------------------------------
(* Vocabulary of the properties. *)

\* The item a visit or a render call is about.
ItemOf(v) == IF v.role = "sprite" THEN sprites[v.index] ELSE effects[v.index]

\* The render calls issued for the drawable of visit v.
CallsFor(v) == {k \in 1..Len(calls) : calls[k].role = v.role /\ calls[k].index = v.index}

\* The pixel columns of an interval.
Cols(r) == {c \in r.start..(r.end - 1) : TRUE}

\* The pixel a drawable holds for (line, column) of its own space.
SourcePixel(d, line, column) ==
    IF d.type = "Bitmap"
    THEN Chunk(Slice(d.data), line * d.width + column + 1)
    ELSE d.color

\* The pixel of the line buffer at caller-space column c (the buffer starts at column 0).
BufferPixel(c) == Chunk(buffer, c + 1)

\* The drawable-space line of an item, and what its drawable is asked.
LineOf(item) == line_index - item.position.y

HintOf(item) ==
    IF all_lines_range.some
    THEN Some(Range(all_lines_range.val.start - item.position.y,
                    all_lines_range.val.end - item.position.y))
    ELSE None

OnLine(item) == Contains(Lines(item.drawable, HintOf(item)), LineOf(item))

\* The drawable-space columns of the requested segment that the drawable shows.
SharedCols(item) ==
    {c \in Cols(LineSegment(item.drawable, HintOf(item), LineOf(item),
                            Range(line_span.start - item.position.x,
                                  line_span.end - item.position.x))) :
        segment_span.start <= c + item.position.x /\ c + item.position.x < segment_span.end}

SetMin(S) == CHOOSE x \in S : \A y \in S : x <= y

SetMax(S) == CHOOSE x \in S : \A y \in S : x >= y

-----------------------------------------------------------------------------
(* C1: layering of two opaque sprites. *)

\* render_line has returned from a zeroed buffer and two sprites, nothing else,
\* each rendered once over the same non-empty set of columns from opaque pixels.
OpaquePair ==
    /\ pc = "done"
    /\ entry = "render_line"
    /\ Len(sprites) = 2
    /\ Len(effects) = 0
    /\ buffer0 = Zeroed(Len(buffer0))
    /\ Len(calls) = 2
    /\ calls[1].index = 1
    /\ calls[2].index = 2
    /\ calls[1].pixels = calls[2].pixels
    /\ Cols(calls[1].pixels) # {}
    /\ \A k \in 1..2 : \A c \in Cols(calls[k].segment) :
            SourcePixel(sprites[k].drawable, calls[k].line, c)[PIXEL_BYTES] = U8_MAX

\* The source pixel sprite k holds for caller-space column c.
PairSource(k, c) ==
    SourcePixel(sprites[k].drawable, calls[k].line, c - sprites[k].position.x)

\* C1 as claimed: of two fully opaque sprites rendered over the same pixels of a
\* zeroed line, the one later in iteration order shows (it occludes the earlier).
C1_LaterSpriteShows ==
    OpaquePair => \A c \in Cols(calls[1].pixels) : BufferPixel(c) = PairSource(2, c)

\* C1 amended: of two fully opaque sprites rendered over the same pixels of a
\* zeroed line, the one earlier in iteration order shows: sprites are drawn front
\* to back, and an opaque destination takes nothing from a later sprite.
C1_EarlierSpriteShows ==
    OpaquePair => \A c \in Cols(calls[1].pixels) : BufferPixel(c) = PairSource(1, c)

\* Two opaque sprites of different colours were rendered over the same pixels.
C1_Witness ==
    /\ OpaquePair
    /\ \E c \in Cols(calls[1].pixels) : PairSource(1, c) # PairSource(2, c)

-----------------------------------------------------------------------------
(* C2: the byte sub-slice handed to render by render_segment. *)

\* render_segment was called for a non-empty segment with a buffer that holds
\* exactly the segment's pixels.
ExactSegment ==
    /\ entry = "render_segment"
    /\ segment_span.start < segment_span.end
    /\ Len(buffer0) = RangeLen(segment_span) * (PIXEL_STRIDE_BITS \div 8)

\* C2 as claimed: with a byte-aligned stride and a buffer holding exactly the
\* pixels of segment_span, every render call gets the bytes
\* [(c0 - segment_span.start) * stride / 8, (c1 - segment_span.start) * stride / 8)
\* of the buffer for the clipped caller-space columns [c0, c1), and that
\* sub-slice lies within the buffer (slicing never fails).
C2_SliceHoldsClippedColumns ==
    ExactSegment =>
        /\ panic \notin {"buffer clip pixels", "slice index starts after its end",
                         "range end index out of range for slice"}
        /\ \A k \in 1..Len(calls) :
            /\ calls[k].clip =
                  Range(((calls[k].pixels.start - segment_span.start) * PIXEL_STRIDE_BITS) \div 8,
                        ((calls[k].pixels.end - segment_span.start) * PIXEL_STRIDE_BITS) \div 8)
            /\ 0 <= calls[k].clip.start
            /\ calls[k].clip.end <= Len(buffer)

-----------------------------------------------------------------------------
(* C3: the assertions of Bitmap::render under render_line. *)

BitmapRenderAssertions ==
    {"assertion failed: line >= 0",
     "assertion failed: line < self.data.len() / PIXEL_BYTES / self.width",
     "assertion failed: offset_bits % 8 == 0",
     "assertion failed: segment.start >= 0",
     "assertion failed: segment.start <= segment.end",
     "assertion failed: segment.end <= self.width",
     "assertion failed: segment.len() * PIXEL_BYTES == data.len()"}

\* C3: in a render_line call over Bitmap sprites and effects at any signed
\* positions, every render call issued to a Bitmap has 0 <= line < height,
\* 0 <= segment.start <= segment.end <= width, offset_bits % 8 = 0 and a slice of
\* segment.len() * 4 bytes, and no assertion of Bitmap::render fails.
C3_BitmapRenderPreconditions ==
    entry = "render_line" =>
        /\ panic \notin BitmapRenderAssertions
        /\ \A k \in 1..Len(calls) :
            LET d == ItemOf(calls[k]).drawable
                call == calls[k]
            IN  d.type = "Bitmap" =>
                    /\ 0 <= call.line
                    /\ call.line < (Len(Slice(d.data)) \div 4) \div d.width
                    /\ 0 <= call.segment.start
                    /\ call.segment.start <= call.segment.end
                    /\ call.segment.end <= d.width
                    /\ call.offset_bits % 8 = 0
                    /\ call.clip.end - call.clip.start
                          = (call.segment.end - call.segment.start) * 4

\* render_line rendered the last line of a Bitmap placed left of and above the
\* frame, from a column of the bitmap that is not its first.
C3_Witness ==
    /\ entry = "render_line"
    /\ \E k \in 1..Len(calls) :
        /\ ItemOf(calls[k]).drawable.type = "Bitmap"
        /\ ItemOf(calls[k]).position.x < 0
        /\ ItemOf(calls[k]).position.y < 0
        /\ calls[k].segment.start > 0
        /\ calls[k].segment.start < calls[k].segment.end

-----------------------------------------------------------------------------
(* C4: sprites first, then effects, each in collection order. *)

\* Every sprite in order, then every effect in order.
CollectionOrder ==
    [k \in 1..Len(sprites) |-> [role |-> "sprite", index |-> k]] \o
    [k \in 1..Len(effects) |-> [role |-> "effect", index |-> k]]

\* The place of a drawable in CollectionOrder.
Rank(v) == IF v.role = "sprite" THEN v.index ELSE Len(sprites) + v.index

\* C4: within one call the drawables are visited in collection order, all sprites
\* before the first effect, each at most once; the render calls come in that
\* order too; and a call that returns has visited every drawable.
C4_SpritesThenEffectsInOrder ==
    /\ Len(visited) <= Len(CollectionOrder)
    /\ \A k \in 1..Len(visited) : visited[k] = CollectionOrder[k]
    /\ \A k \in 1..Len(calls) : \A m \in 1..Len(calls) :
            k < m => Rank(calls[k]) < Rank(calls[m])
    /\ \A k \in 1..Len(calls) : Rank(calls[k]) <= Len(visited)
    /\ pc = "done" => visited = CollectionOrder

\* A call over two sprites and an effect has returned, all three rendered.
C4_Witness ==
    /\ pc = "done"
    /\ Len(sprites) = 2
    /\ Len(effects) = 1
    /\ Len(calls) = 3

-----------------------------------------------------------------------------
(* C5: no render call with an empty segment. *)

\* C5 as claimed: render is never invoked with an empty segment: when the
\* drawable's line_segment and the translated segment span share no pixel column,
\* the drawable is skipped.
C5_NoRenderOfEmptySegment ==
    \A k \in 1..Len(calls) : calls[k].segment.start < calls[k].segment.end

-----------------------------------------------------------------------------
(* C6: drawables off the line or off the segment. *)

\* A visited drawable that is off the line or shares no column with the segment.
OutOfSight(v) == ~OnLine(ItemOf(v)) \/ SharedCols(ItemOf(v)) = {}

\* C6 as claimed: a drawable whose translated line is outside lines(), or whose
\* line_segment shares no column with the translated segment, gets no render
\* call; and when every drawable of a call is skipped so, the buffer is unchanged.
C6_OutOfSightIsSkipped ==
    /\ \A k \in 1..Len(visited) : OutOfSight(visited[k]) => CallsFor(visited[k]) = {}
    /\ (pc = "done" /\ \A k \in 1..Len(visited) : OutOfSight(visited[k]))
            => buffer = buffer0

-----------------------------------------------------------------------------
(* C7: negative positions are clipped. *)

\* A visited drawable placed left of or above the frame that shows on this line.
ClippedInSight(v) ==
    /\ ItemOf(v).position.x < 0 \/ ItemOf(v).position.y < 0
    /\ OnLine(ItemOf(v))
    /\ SharedCols(ItemOf(v)) # {}

\* C7: under render_line nothing panics, and a drawable with a negative position
\* that partly overlaps the line gets exactly one render call, with
\* line = line_index - position.y and the segment of its columns inside the line.
C7_NegativePositionsClipped ==
    entry = "render_line" =>
        /\ pc # "panic"
        /\ \A k \in 1..Len(visited) :
            ClippedInSight(visited[k]) =>
                /\ Cardinality(CallsFor(visited[k])) = 1
                /\ \A m \in CallsFor(visited[k]) :
                    /\ calls[m].line = line_index - ItemOf(visited[k]).position.y
                    /\ calls[m].segment =
                          Range(SetMin(SharedCols(ItemOf(visited[k]))),
                                SetMax(SharedCols(ItemOf(visited[k]))) + 1)

\* render_line has visited a drawable placed left of and above the frame whose
\* first column and first line fall outside the frame.
C7_Witness ==
    /\ entry = "render_line"
    /\ \E k \in 1..Len(visited) :
        /\ ClippedInSight(visited[k])
        /\ ItemOf(visited[k]).position.x < 0
        /\ ItemOf(visited[k]).position.y < 0
        /\ \E m \in CallsFor(visited[k]) : calls[m].segment.start > 0 /\ calls[m].line > 0

-----------------------------------------------------------------------------
(* C8 and C9: Intersect::intersect. *)

Computed == ab # Pending /\ ba # Pending

\* C8 as claimed: for every valid interval a, empty ones included, intersect(a, a)
\* returns a.
C8_IntersectIdempotent ==
    (Computed /\ a = b) => ab = Some(a)

\* C8 amended: for every valid non-empty interval a, intersect(a, a) returns a;
\* for an empty interval a (start = end) it returns nothing.
C8_IntersectIdempotentNonEmpty ==
    (Computed /\ a = b) => ab = (IF a.start < a.end THEN Some(a) ELSE None)

\* An empty interval was intersected with itself.
C8_Witness == Computed /\ a = b /\ a.start = a.end

\* C9: valid intervals a, b with a.end <= b.start intersect to nothing in either
\* order; non-empty a, b that share an integer intersect, in either order, to
\* [max(a.start, b.start), min(a.end, b.end)).
C9_HalfOpenIntersection ==
    Computed =>
        /\ a.end <= b.start => (ab = None /\ ba = None)
        /\ (a.start < a.end /\ b.start < b.end /\ Cols(a) \cap Cols(b) # {}) =>
                /\ ab = Some(Range(Max(a.start, b.start), Min(a.end, b.end)))
                /\ ba = ab

\* Two non-empty touching intervals were intersected in both orders.
C9_Witness ==
    /\ Computed
    /\ a.start < a.end
    /\ b.start < b.end
    /\ a.end = b.start

-----------------------------------------------------------------------------
(* C10: when the constructors fail. *)

\* n is a whole multiple of m.
IsMultiple(n, m) == \E k \in 0..n : n = k * m

\* C10 as claimed, for the widths that make a line (width > 0): Bitmap::new and
\* ZoomedBitmap::new succeed exactly when data.len() is a multiple of one full
\* row, width * 4 bytes, and panic otherwise.
C10_NewFailsIffNotWholeRows ==
    (ctor.called /\ ctor.new.width > 0) =>
        (ctor.ok <=> IsMultiple(Len(Slice(ctor.new.data)), ctor.new.width * 4))

-----------------------------------------------------------------------------
(* C11: the extent and the content of a zoomed bitmap. *)

\* render_line has returned from a zeroed buffer and one zoomed bitmap, nothing
\* else, in the given role.
ZoomedAlone(role) ==
    /\ pc = "done"
    /\ entry = "render_line"
    /\ buffer0 = Zeroed(Len(buffer0))
    /\ Len(sprites) = (IF role = "sprite" THEN 1 ELSE 0)
    /\ Len(effects) = (IF role = "effect" THEN 1 ELSE 0)
    /\ ItemOf([role |-> role, index |-> 1]).drawable.type = "ZoomedBitmap"

\* The pixel the zoomed source stands for at column x of line y of its own
\* space: source pixel (x div zoom_x, y div zoom_y) inside
\* [0, width * zoom_x) x [0, height * zoom_y), nothing (zeroes) outside.
ZoomedPixel(zb, x, y) ==
    IF /\ 0 <= y
       /\ y < BitmapHeight(zb) * zb.vertical_zoom_factor
       /\ 0 <= x
       /\ x < zb.width * zb.horizontal_zoom_factor
    THEN Chunk(Slice(zb.data),
               (y \div zb.vertical_zoom_factor) * zb.width
                    + (x \div zb.horizontal_zoom_factor) + 1)
    ELSE Zeroed(PIXEL_BYTES)

\* The zoomed bitmap alone, in the given role, reports the zoomed extent and
\* leaves in every column of the line the pixel it stands for there.
ZoomedShown(role) ==
    ZoomedAlone(role) =>
        LET item == ItemOf([role |-> role, index |-> 1])
            zb == item.drawable
        IN  /\ ZoomedBitmapLines(zb, role) =
                    Range(0, BitmapHeight(zb) * zb.vertical_zoom_factor)
            /\ ZoomedBitmapLineSegment(zb, role) =
                    Range(0, zb.width * zb.horizontal_zoom_factor)
            /\ \A c \in Cols(line_span) :
                    BufferPixel(c) =
                        ZoomedPixel(zb, c - item.position.x, line_index - item.position.y)

\* The Sprite half of C11, which the code keeps: as a sprite over a zeroed
\* line, a zoomed bitmap shows [0, height * zoom_y) x [0, width * zoom_x) and
\* output pixel (x, y) is source pixel (x div zoom_x, y div zoom_y).
ZoomedSpriteShown == ZoomedShown("sprite")

\* A zoomed sprite shifted by (-1, -1) was rendered on a line of its second
\* source row.
ZoomedSpriteSeen ==
    /\ ZoomedAlone("sprite")
    /\ sprites[1].position = Position(-1, -1)
    /\ line_index = 1
    /\ Len(calls) = 1
    /\ Len(buffer) = PIXEL_BYTES * MaxZoomPixels

\* C11 as claimed: in the Sprite role and in the Effect role alike, a zoomed
\* bitmap reports lines() = [0, height * zoom_y) and line_segment() =
\* [0, width * zoom_x), and over a zeroed destination every output pixel (x, y)
\* of that extent equals source pixel (x div zoom_x, y div zoom_y).
C11_ZoomedExtentAndContent == ZoomedShown("sprite") /\ ZoomedShown("effect")

-----------------------------------------------------------------------------
(* C12: the blends saturate. *)

\* The exact sum of a channel: dest + src * (255 - dest alpha) / 255 for a
\* sprite, src + dest * (255 - src alpha) / 255 for an effect.
ExactSum(role, src, dest, k) ==
    IF role = "sprite"
    THEN dest[k] + ((src[k] * (255 - dest[4])) \div 255)
    ELSE src[k] + ((dest[k] * (255 - src[4])) \div 255)

\* The blend under way ended without a panic and wrote min(255, exact sum) to
\* every channel.
BlendSaturated ==
    /\ blend.out.panic = ""
    /\ \A k \in 1..4 :
            blend.out.data[k] = Min(255, ExactSum(blend.role, blend.src, blend.dest, k))

\* The part of C12 the code keeps: Bitmap and ColorClip saturate in both roles,
\* and no drawable's narrowing of the u16 term fails.
BlendSaturatedUnzoomed ==
    blend.done =>
        /\ blend.out.panic # "infallible"
        /\ blend.adapter # "ZoomedBitmap" => BlendSaturated

\* A Bitmap blended a pixel whose exact sum exceeds 255.
BlendSaturatedUnzoomedSeen ==
    /\ blend.done
    /\ blend.adapter = "Bitmap"
    /\ ExactSum(blend.role, blend.src, blend.dest, 1) > 255

\* C12 as claimed: in Bitmap, ZoomedBitmap and ColorClip alike, the Sprite blend
\* and the Effect blend yield min(255, exact sum) in every channel and never
\* overflow, wrap or abort.
C12_BlendSaturatesEverywhere == blend.done => BlendSaturated

-----------------------------------------------------------------------------
(* C13: the byte sub-range of sub-byte pixels. *)

\* The byte a bit lies in, and the first byte boundary at or after a bit.
FloorByte(bit) == bit \div 8

CeilByte(bit) == IF bit % 8 = 0 THEN bit \div 8 ELSE (bit \div 8) + 1

\* The first bit of the clipped columns and the bit after their last.
ClipFirstBit == clipped.segment_offset_bits + (clipped.pixels.start * clipped.stride)

ClipEndBit == clipped.segment_offset_bits + (clipped.pixels.end * clipped.stride)

\* The part of C13 the code keeps: the end of the byte sub-range is rounded up
\* for every stride, and for strides of whole bytes the start is exact.
ClipEndRoundedUp ==
    (clipped.done /\ clipped.panic = "") =>
        /\ clipped.buffer_clip.end = CeilByte(ClipEndBit)
        /\ clipped.stride % 8 = 0 => clipped.buffer_clip.start = FloorByte(ClipFirstBit)

\* The byte sub-range of one 4-bit pixel at an odd column was computed.
ClipEndRoundedUpSeen ==
    /\ clipped.done
    /\ clipped.stride = 4
    /\ clipped.pixels = Range(1, 2)

\* C13 as claimed, for the non-empty intervals: for a pixel stride that is not
\* a multiple of 8 and clipped columns [c0, c1) inside the segment, the byte
\* sub-range starts at floor((segment_offset_bits + c0 * stride) / 8) and ends
\* at ceil((segment_offset_bits + c1 * stride) / 8), so a non-empty pixel
\* interval never maps to an empty byte slice.
C13_SubByteClipEnclosesPixels ==
    (/\ clipped.done
     /\ clipped.stride % 8 # 0
     /\ clipped.pixels.start < clipped.pixels.end) =>
        /\ clipped.panic = ""
        /\ clipped.buffer_clip.start = FloorByte(ClipFirstBit)
        /\ clipped.buffer_clip.end = CeilByte(ClipEndBit)
        /\ clipped.buffer_clip.start < clipped.buffer_clip.end

====
